---- MODULE Spec2Model ----
(***************************************************************************)
(* A model of janitor/resources/ec2.py: the EC2 resource manager (query    *)
(* building, cached fetch), the state-transition gate, the image filter    *)
(* and the start / stop / terminate actions.                               *)
(*                                                                         *)
(* Python values are modelled as tagged records so that values of          *)
(* different Python types can be compared:                                 *)
(*   a declaration value is [t |-> "str" | "int" | "list" | "none", v],    *)
(*   v being the sequence of strings the value holds;                      *)
(*   an optional list (None or a list) is [isNone, list].                  *)
(***************************************************************************)
EXTENDS Integers, Sequences, FiniteSets, TLC

VARIABLES
    \* ---- QueryFilter.parse / EC2.resource_query
    decls,        \* the raw 'query' declarations of the policy, as given
    queries,      \* self.queries: the parsed QueryFilter objects (key, value)
    qpc,          \* "new" | "parsed" | "rejected"
    runs,         \* number of resource_query() calls made so far
    result,       \* what the last resource_query() call produced
    firstResult,  \* what the first resource_query() call produced
    \* ---- EC2.resources
    rpc,          \* position inside resources()
    qf,           \* local qf of resources()
    inst,         \* local instances of resources()
    cacheLoad,    \* what self._cache.load() answers
    cache,        \* the cache's entries: a set of [key, val]
    pages,        \* what the describe_instances paginator yields
    keep,         \* the instance ids the active filter chain lets through
    yielded,      \* what the cache yielded in this run
    describes,    \* the Filters of each describe_instances call of this run
    saves,        \* the (key, instances) of each cache save of this run
    returned,     \* the value resources() returned
    fruns,        \* number of resources() runs started
    \* ---- Start / Stop / Terminate
    action,       \* "start" | "stop" | "terminate"
    input,        \* the instances handed to process()
    opt,          \* 'terminate-ephemeral' (Stop) or 'force' (Terminate)
    apc,          \* position inside process()
    survivors,    \* local instances after filter_instance_state
    calls,        \* every API call issued, in order: [api, ids]
    nextTask,     \* the pool's next task to hand out
    worker,       \* worker -> task in flight (0: idle)
    done,         \* tasks whose modify call has completed
    batches,      \* the batches still to be looped over
    \* ---- InstanceImage
    ipc,          \* "new" | "mapped"
    candidates,   \* the instances handed to the image filter
    images,       \* the Images of the describe_images response
    wanted,       \* the configured predicate: the image state it asks for
    image_map,    \* self.image_map
    processed,    \* what process() returned
    verdict       \* instance index -> what __call__ answered

qvars == <<decls, queries, qpc, runs, result, firstResult>>
fvars == <<rpc, qf, inst, cacheLoad, cache, pages, keep, yielded, describes,
           saves, returned, fruns>>
avars == <<action, input, opt, apc, survivors, calls, nextTask, worker, done,
           batches>>
ivars == <<ipc, candidates, images, wanted, image_map, processed, verdict>>
vars == <<qvars, fvars, avars, ivars>>

\* ------------------------------------------------------------------ bounds
MaxDecls == 3
MaxRuns == 2
MaxFetchDecls == 2
MaxFetchRuns == 2
MaxInstances == 3
MaxCandidates == 2

\* utils.chunks(instances, 100) in Terminate.process
BatchSize == 100

\* ------------------------------------------------------------ Python values
PyStr(s) == [t |-> "str", v |-> <<s>>]
PyInt(s) == [t |-> "int", v |-> <<s>>]
PyList(l) == [t |-> "list", v |-> l]
PyNone == [t |-> "none", v |-> <<>>]

None == [isNone |-> TRUE, list |-> <<>>]
Some(l) == [isNone |-> FALSE, list |-> l]

Range(s) == {s[k] : k \in DOMAIN s}
SeqsUpTo(S, n) == UNION {[1..m -> S] : m \in 0..n}

\* ------------------------------------------------------------ QueryFilter
EC2_VALID_FILTERS ==
    {"architecture", "availability-zone", "iam-instance-profile.arn",
     "image-id", "instance-id", "instance-lifecycle", "instance-state-name",
     "instance.group-id", "instance.group-name", "tag-key", "tag-value",
     "tag:", "vpc-id"}

\* The keys of the model that begin with 'tag:' (key.startswith('tag:')).
TagPrefixed == {"tag:", "tag:Name"}
StartsWithTag(key) == key \in TagPrefixed

\* A raw declaration: whether it is a dict, and its items (key, value).
Decl(k, val) == [isdict |-> TRUE, items |-> << <<k, val>> >>]
DeclValues ==
    {PyStr("running"), PyStr("stopped"), PyInt("5"), PyList(<<>>), PyList(<<"pending">>)}
ValidDecls ==
    {Decl(k, val) : k \in {"instance-state-name", "tag:Name"}, val \in DeclValues}
InvalidDecls ==
    { [isdict |-> FALSE, items |-> <<>>],
      [isdict |-> TRUE, items |-> <<>>],
      [isdict |-> TRUE,
       items |-> << <<"image-id", PyStr("ami-1")>>, <<"vpc-id", PyStr("vpc-1")>> >>],
      Decl("tag-name", PyStr("running")),
      Decl("instance-state-name", PyNone) }
Decls == ValidDecls \cup InvalidDecls

\* QueryFilter.validate: TRUE when no ValueError is raised.
ValidateOk(d) ==
    /\ Len(d.items) = 1
    /\ (d.items[1][1] \in EC2_VALID_FILTERS \/ StartsWithTag(d.items[1][1]))
    /\ d.items[1][2].t # "none"

\* The QueryFilter a validated declaration becomes (self.key, self.value).
QueryFilterOf(d) == [key |-> d.items[1][1], value |-> d.items[1][2]]

\* QueryFilter.parse: TRUE when every declaration is a dict that validates.
ParseOk(data) == \A k \in DOMAIN data : data[k].isdict /\ ValidateOk(data[k])
ParseAll(data) == [k \in DOMAIN data |-> QueryFilterOf(data[k])]

\* QueryFilter.query of self.queries[k]: a string is wrapped in a fresh list;
\* any other value is handed out as it is, the very object self.value holds
\* (owner = k names the QueryFilter whose value the clause's Values aliases).
Query(qs, k) ==
    IF qs[k].value.t = "str"
    THEN [Name |-> qs[k].key, Values |-> PyList(qs[k].value.v), owner |-> 0]
    ELSE [Name |-> qs[k].key, Values |-> qs[k].value, owner |-> k]

\* One pass of the loop body of EC2.resource_query for self.queries[k].
\* st.qf is the clause list built so far; st.isList tells whether the name qf
\* still denotes that list: the inner 'for qf in qf' rebinds qf to each clause
\* in turn and leaves it bound to the last clause, a dict.
MergeInto(st, k, qd) ==
    LET j == CHOOSE j \in DOMAIN st.qf : st.qf[j].Name = qd.Name
        c == st.qf[j]
    IN  IF c.Values.t # "list" \/ qd.Values.t # "list"
        THEN \* .extend on a non-list, or extending by a non-iterable
             [st EXCEPT !.raised = TRUE, !.isList = FALSE]
        ELSE LET merged == PyList(c.Values.v \o qd.Values.v)
             IN  [st EXCEPT
                    !.qf[j].Values = merged,
                    !.queries = IF c.owner = 0 THEN @
                                ELSE [@ EXCEPT ![c.owner].value = merged],
                    !.isList = FALSE]

RQStep(st, k) ==
    LET qd == Query(st.queries, k)
    IN  IF st.raised THEN st
        ELSE IF ~st.isList
        THEN \* qf is a dict: iterating it yields its keys, and qf['Name'] on a
             \* key raises; in the other branch a dict has no append
             [st EXCEPT !.raised = TRUE]
        ELSE IF qd.Name \in st.names
        THEN MergeInto(st, k, qd)
        ELSE [st EXCEPT !.names = @ \cup {qd.Name}, !.qf = Append(@, qd)]

RECURSIVE RQLoop(_, _)
RQLoop(st, k) ==
    IF k > Len(st.queries) THEN st ELSE RQLoop(RQStep(st, k), k + 1)

\* EC2.resource_query: the queries after the call, and what the call gives:
\* kind "list" (a list of clauses), "dict" (a single clause, not in a list) or
\* "raised" (an exception).
Clause(c) == [Name |-> c.Name, Values |-> c.Values]
ResourceQuery(qs) ==
    LET st == RQLoop([queries |-> qs, qf |-> <<>>, isList |-> TRUE,
                      names |-> {}, raised |-> FALSE], 1)
        out == [k \in DOMAIN st.qf |-> Clause(st.qf[k])]
    IN  [queries |-> st.queries,
         value |-> IF st.raised THEN [kind |-> "raised", clauses |-> <<>>]
                   ELSE IF st.isList THEN [kind |-> "list", clauses |-> out]
                   ELSE [kind |-> "dict", clauses |-> <<out[Len(out)]>>]]

NoResult == [kind |-> "none", clauses |-> <<>>]

\* ---------------------------------------------------- the parts at rest
QIdle ==
    /\ decls = <<>> /\ queries = <<>> /\ qpc = "idle" /\ runs = 0
    /\ result = NoResult /\ firstResult = NoResult
FIdle ==
    /\ rpc = "idle" /\ qf = NoResult /\ inst = None /\ cacheLoad = FALSE
    /\ cache = {} /\ pages = <<>> /\ keep = {} /\ yielded = None
    /\ describes = <<>> /\ saves = <<>> /\ returned = None /\ fruns = 0
AIdle ==
    /\ action = "idle" /\ input = <<>> /\ opt = FALSE /\ apc = "idle"
    /\ survivors = <<>> /\ calls = <<>> /\ nextTask = 0
    /\ worker = <<0, 0>> /\ done = {} /\ batches = <<>>
IIdle ==
    /\ ipc = "idle" /\ candidates = <<>> /\ images = {} /\ wanted = "none"
    /\ image_map = <<>> /\ processed = None /\ verdict = <<>>

\* ------------------------------------------- EC2.__init__ / resource_query
\* A policy is constructed from its raw query declarations.
InitQuery ==
    /\ decls \in SeqsUpTo(Decls, MaxDecls)
    /\ queries = <<>> /\ qpc = "new" /\ runs = 0
    /\ result = NoResult /\ firstResult = NoResult
    /\ FIdle /\ AIdle /\ IIdle

\* EC2.__init__: self.queries = QueryFilter.parse(...), every declaration valid.
Parse ==
    /\ qpc = "new"
    /\ ParseOk(decls)
    /\ queries' = ParseAll(decls)
    /\ qpc' = "parsed"
    /\ UNCHANGED <<decls, runs, result, firstResult, fvars, avars, ivars>>

\* EC2.__init__: QueryFilter.parse raises ValueError, the policy does not load.
ParseReject ==
    /\ qpc = "new"
    /\ ~ParseOk(decls)
    /\ qpc' = "rejected"
    /\ UNCHANGED <<decls, queries, runs, result, firstResult, fvars, avars, ivars>>

\* One call of EC2.resource_query on the loaded policy.
CallResourceQuery ==
    /\ qpc = "parsed"
    /\ runs < MaxRuns
    /\ LET r == ResourceQuery(queries)
       IN  /\ queries' = r.queries
           /\ result' = r.value
           /\ firstResult' = IF runs = 0 THEN r.value ELSE firstResult
    /\ runs' = runs + 1
    /\ UNCHANGED <<decls, qpc, fvars, avars, ivars>>

NextQuery == Parse \/ ParseReject \/ CallResourceQuery
SpecQuery == InitQuery /\ [][NextQuery]_vars

\* -------------------------------------------------- claims on the query
\* The names of the parsed declarations, each once, in first-seen order.
RECURSIVE FirstSeen(_, _, _)
FirstSeen(qs, k, seen) ==
    IF k > Len(qs) THEN <<>>
    ELSE IF qs[k].key \in seen THEN FirstSeen(qs, k + 1, seen)
    ELSE <<qs[k].key>> \o FirstSeen(qs, k + 1, seen \cup {qs[k].key})

\* The values of every declaration of `name`, concatenated in declaration order.
RECURSIVE ValuesOf(_, _, _)
ValuesOf(qs, k, name) ==
    IF k > Len(qs) THEN <<>>
    ELSE (IF qs[k].key = name THEN qs[k].value.v ELSE <<>>)
         \o ValuesOf(qs, k + 1, name)

MergedNames(r) == [k \in DOMAIN r.clauses |-> r.clauses[k].Name]
MergedValues(r) == [k \in DOMAIN r.clauses |-> r.clauses[k].Values.v]

\* C1: for every sequence of validated declarations, resource_query returns a
\* list of clauses, one per distinct declared name in first-seen order, each
\* holding the concatenation of the values of every declaration of its name.
C1_MergedQuery ==
    runs >= 1 =>
        LET qs == ParseAll(decls)
            names == FirstSeen(qs, 1, {})
        IN  /\ firstResult.kind = "list"
            /\ MergedNames(firstResult) = names
            /\ MergedValues(firstResult)
                 = [k \in DOMAIN names |-> ValuesOf(qs, 1, names[k])]

\* C8: every clause built from validated declarations has a Values field that
\* is a non-empty list.
C8_ValuesNonEmptyList ==
    \A k \in DOMAIN result.clauses :
        /\ result.clauses[k].Values.t = "list"
        /\ Len(result.clauses[k].Values.v) >= 1

\* C9: building the query never changes the parsed QueryFilters, and every
\* call returns what the first call returned.
C9_QueriesFrozen ==
    qpc = "parsed" =>
        /\ queries = ParseAll(decls)
        /\ (runs >= 1 => result = firstResult)

\* ------------------------------------------------------------ EC2.resources
\* The declarations of the policies whose fetch is modelled (all of them valid).
FetchDecls ==
    { Decl("instance-state-name", PyStr("running")),
      Decl("instance-state-name", PyList(<<"pending">>)),
      Decl("tag:Name", PyStr("stopped")) }

Inst(n) == [InstanceId |-> n]

\* What the describe_instances paginator may yield: pages of Reservations of
\* Instances.
DescribeResponses ==
    { <<>>,
      << [Reservations |-> <<>>] >>,
      << [Reservations |-> << [Instances |-> <<Inst(1), Inst(2)>>] >>],
         [Reservations |-> << [Instances |-> <<Inst(3)>>],
                              [Instances |-> <<>>] >>] >> }

\* itertools.chain(*[f(x) for x in seq]) for a sequence of sequences.
RECURSIVE Chain(_)
Chain(ss) == IF ss = <<>> THEN <<>> ELSE Head(ss) \o Chain(Tail(ss))

\* The flat instance list of a paginated response.
Flatten(ps) ==
    LET reservations == Chain([k \in DOMAIN ps |-> ps[k].Reservations])
    IN  Chain([k \in DOMAIN reservations |-> reservations[k].Instances])

\* self._cache.get(key) and self._cache.save(key, val).
CacheGet(c, key) ==
    IF \E e \in c : e.key = key
    THEN Some((CHOOSE e \in c : e.key = key).val)
    ELSE None
CacheSave(c, key, val) == {e \in c : e.key # key} \cup {[key |-> key, val |-> val]}

\* self.filter_resources: the active filter chain.
FilterResources(l) ==
    LET Kept(i) == i.InstanceId \in keep IN SelectSeq(l, Kept)

\* 'instances is not None', taken for 'if instances:'.
CacheHitTruthy(i) == ~i.isNone /\ i.list # <<>>
\* 'instances is not None'
CacheHit(i) == ~i.isNone

InitFetch ==
    /\ decls \in SeqsUpTo(FetchDecls, MaxFetchDecls)
    /\ queries = ParseAll(decls) /\ qpc = "parsed" /\ runs = 0
    /\ result = NoResult /\ firstResult = NoResult
    /\ rpc = "ready" /\ qf = NoResult /\ inst = None
    /\ cacheLoad \in BOOLEAN
    \* the cache is empty, or holds what an earlier run of this policy saved
    /\ cache \in {{}} \cup
            {{[key |-> ResourceQuery(queries).value, val |-> l]} :
                l \in {<<>>, <<Inst(1), Inst(4)>>}}
    /\ pages \in DescribeResponses
    /\ keep \in {{1, 2, 3, 4}, {1}}
    /\ yielded = None /\ describes = <<>> /\ saves = <<>> /\ returned = None
    /\ fruns = 0
    /\ AIdle /\ IIdle

\* resources(): qf = self.resource_query(); instances = None
BuildQuery ==
    /\ rpc \in {"ready", "returned", "raised"}
    /\ fruns < MaxFetchRuns
    /\ fruns' = fruns + 1
    /\ LET r == ResourceQuery(queries)
       IN  /\ queries' = r.queries
           /\ qf' = r.value
           /\ rpc' = IF r.value.kind = "raised" THEN "raised" ELSE "cache"
    /\ inst' = None /\ yielded' = None /\ describes' = <<>> /\ saves' = <<>>
    /\ returned' = None
    /\ UNCHANGED <<decls, qpc, runs, result, firstResult, cacheLoad, cache,
                   pages, keep, avars, ivars>>

\* resources(): if self._cache.load(): instances = self._cache.get(qf)
CheckCache ==
    /\ rpc = "cache"
    /\ inst' = IF cacheLoad THEN CacheGet(cache, qf) ELSE None
    /\ yielded' = inst'
    /\ rpc' = "checked"
    /\ UNCHANGED <<qvars, qf, cacheLoad, cache, pages, keep, describes, saves,
                   returned, fruns, avars, ivars>>

\* resources(): the cached list is filtered and returned
ReturnCached ==
    /\ rpc = "checked"
    /\ CacheHit(inst)
    /\ returned' = Some(FilterResources(inst.list))
    /\ rpc' = "returned"
    /\ UNCHANGED <<qvars, qf, inst, cacheLoad, cache, pages, keep, yielded,
                   describes, saves, fruns, avars, ivars>>

\* resources(): p.paginate(Filters=qf), flattened into instances
Describe ==
    /\ rpc = "checked"
    /\ ~CacheHit(inst)
    /\ describes' = Append(describes, qf)
    /\ inst' = Some(Flatten(pages))
    /\ rpc' = "described"
    /\ UNCHANGED <<qvars, qf, cacheLoad, cache, pages, keep, yielded, saves,
                   returned, fruns, avars, ivars>>

\* resources(): self._cache.save(qf, instances)
Save ==
    /\ rpc = "described"
    /\ cache' = CacheSave(cache, qf, inst.list)
    /\ saves' = Append(saves, [key |-> qf, val |-> inst.list])
    /\ rpc' = "saved"
    /\ UNCHANGED <<qvars, qf, inst, cacheLoad, pages, keep, yielded, describes,
                   returned, fruns, avars, ivars>>

\* resources(): return self.filter_resources(instances)
ReturnFetched ==
    /\ rpc = "saved"
    /\ returned' = Some(FilterResources(inst.list))
    /\ rpc' = "returned"
    /\ UNCHANGED <<qvars, qf, inst, cacheLoad, cache, pages, keep, yielded,
                   describes, saves, fruns, avars, ivars>>

NextFetch ==
    BuildQuery \/ CheckCache \/ ReturnCached \/ Describe \/ Save \/ ReturnFetched
SpecFetch == InitFetch /\ [][NextFetch]_vars

\* C10: describe_instances is called exactly when the cache yields no list
\* for the built query; a hit uses the cached list with no describe call and
\* no save; a miss saves the flattened list once under the built query before
\* returning; either way the filter chain applied to that list is returned.
C10_FetchOnMiss ==
    /\ rpc = "checked" =>
          yielded = (IF cacheLoad /\ (\E e \in cache : e.key = qf)
                     THEN Some((CHOOSE e \in cache : e.key = qf).val)
                     ELSE None)
    /\ describes # <<>> => yielded.isNone
    /\ rpc \in {"described", "saved"} => describes = <<qf>>
    /\ rpc = "returned" =>
          IF ~yielded.isNone
          THEN /\ describes = <<>>
               /\ saves = <<>>
               /\ returned = Some(FilterResources(yielded.list))
          ELSE /\ describes = <<qf>>
               /\ saves = <<[key |-> qf, val |-> Flatten(pages)]>>
               /\ \E e \in cache : e.key = qf /\ e.val = Flatten(pages)
               /\ returned = Some(FilterResources(Flatten(pages)))

\* A second run that is served from what the first run fetched and saved.
C10_Witness ==
    /\ fruns = 2 /\ rpc = "returned"
    /\ ~yielded.isNone /\ yielded.list = Flatten(pages)
    /\ Len(yielded.list) = 3 /\ Len(returned.list) = 1

\* ------------------------------------------------ the lifecycle actions
Bd(name, ebs) == [DeviceName |-> name, Ebs |-> ebs]   \* Ebs: 'Ebs' in bd

\* The kinds of instance of the model: a state name and the block device
\* mappings (none when the key is absent or the list is empty).
InstanceKinds ==
    { [State |-> "running", BlockDeviceMappings |-> <<Bd("/dev/sda1", TRUE)>>],
      [State |-> "running", BlockDeviceMappings |-> <<Bd("/dev/sda1", FALSE)>>],
      [State |-> "running", BlockDeviceMappings |-> <<>>],
      [State |-> "pending", BlockDeviceMappings |-> <<Bd("/dev/xvda", TRUE)>>],
      [State |-> "stopped",
       BlockDeviceMappings |-> <<Bd("/dev/sda1", TRUE), Bd("/dev/sdf", TRUE)>>],
      [State |-> "stopping", BlockDeviceMappings |-> <<Bd("/dev/sda1", TRUE)>>],
      [State |-> "terminated", BlockDeviceMappings |-> <<>>] }

Instance(n, kind) ==
    [InstanceId |-> n, State |-> kind.State,
     BlockDeviceMappings |-> kind.BlockDeviceMappings]
MkBatch(kinds) == [k \in DOMAIN kinds |-> Instance(k, kinds[k])]

\* A batch larger than two terminate batches: of every 7 instances one is
\* terminated, one stopped, one stopping, one pending and three running.
LargeKind(k) ==
    CASE k % 7 = 0 -> [State |-> "terminated", BlockDeviceMappings |-> <<>>]
      [] k % 7 = 1 -> [State |-> "stopped",
                       BlockDeviceMappings |-> <<Bd("/dev/sda1", TRUE)>>]
      [] k % 7 = 2 -> [State |-> "stopping",
                       BlockDeviceMappings |-> <<Bd("/dev/sda1", TRUE)>>]
      [] k % 7 = 3 -> [State |-> "pending",
                       BlockDeviceMappings |-> <<Bd("/dev/sda1", TRUE)>>]
      [] OTHER -> [State |-> "running",
                   BlockDeviceMappings |-> <<Bd("/dev/sda1", TRUE)>>]
LargeBatch == [k \in 1..(2 * BatchSize + MaxInstances) |-> Instance(k, LargeKind(k))]

Ids(l) == [k \in DOMAIN l |-> l[k].InstanceId]

\* valid_origin_states of Start, Stop and Terminate.
ValidOriginStates(a) ==
    CASE a = "start" -> {"stopped"}
      [] a = "stop" -> {"running", "pending"}
      [] a = "terminate" -> {"running", "stopped", "pending", "stopping"}
      [] OTHER -> {}

\* filter_instance_state without the state test.
FilterInstanceStateAll(states, instances) == instances
\* StateTransitionFilter.filter_instance_state
FilterInstanceState(states, instances) ==
    LET Valid(i) == i.State \in states IN SelectSeq(instances, Valid)

\* Stop.split_on_storage: the inner loop over one instance's mappings, adding
\* to (ephemeral, persistent).
RECURSIVE SplitOne(_, _, _)
SplitOne(i, bds, groups) ==
    IF bds = <<>> THEN groups
    ELSE LET bd == Head(bds)
             g == IF bd.DeviceName = "/dev/sda1"
                  THEN IF bd.Ebs
                       THEN [groups EXCEPT !.persistent = Append(@, i)]
                       ELSE [groups EXCEPT !.ephemeral = Append(@, i)]
                  ELSE groups
         IN  SplitOne(i, Tail(bds), g)

\* Stop.split_on_storage: the outer loop over instances[lo..hi], in order
\* (evaluated by halves: the groups of a range are those of its first half
\* followed by those of its second half).
NoGroups == [ephemeral |-> <<>>, persistent |-> <<>>]
RECURSIVE SplitRange(_, _, _)
SplitRange(instances, lo, hi) ==
    IF lo > hi THEN NoGroups
    ELSE IF lo = hi
    THEN SplitOne(instances[lo], instances[lo].BlockDeviceMappings, NoGroups)
    ELSE LET mid == (lo + hi) \div 2
             a == SplitRange(instances, lo, mid)
             b == SplitRange(instances, mid + 1, hi)
         IN  [ephemeral |-> a.ephemeral \o b.ephemeral,
              persistent |-> a.persistent \o b.persistent]

SplitOnStorage(instances) == SplitRange(instances, 1, Len(instances))

\* utils.chunks(l, n): successive slices of n elements.
RECURSIVE Chunks(_, _)
Chunks(l, n) ==
    IF l = <<>> THEN <<>>
    ELSE IF Len(l) <= n THEN <<l>>
    ELSE <<SubSeq(l, 1, n)>> \o Chunks(SubSeq(l, n + 1, Len(l)), n)

Call(api, ids) == [api |-> api, ids |-> ids]

InitActions ==
    /\ action \in {"start", "stop", "terminate"}
    /\ opt \in (IF action = "start" THEN {FALSE} ELSE BOOLEAN)
    /\ input \in {MkBatch(ks) : ks \in SeqsUpTo(InstanceKinds, MaxInstances)}
                 \cup {LargeBatch}
    /\ apc = "begin" /\ survivors = <<>> /\ calls = <<>>
    /\ nextTask = 0 /\ worker = <<0, 0>> /\ done = {} /\ batches = <<>>
    /\ QIdle /\ FIdle /\ IIdle

\* Start.process
StartProcess ==
    /\ action = "start" /\ apc = "begin"
    /\ LET instances == FilterInstanceState(ValidOriginStates("start"), input)
       IN  /\ survivors' = instances
           /\ calls' = IF Len(instances) = 0 THEN calls
                       ELSE Append(calls, Call("start_instances", Ids(instances)))
    /\ apc' = "done"
    /\ UNCHANGED <<action, input, opt, nextTask, worker, done, batches,
                   qvars, fvars, ivars>>

\* Stop.process: the state gate and the early return
StopGate ==
    /\ action = "stop" /\ apc = "begin"
    /\ survivors' = FilterInstanceState(ValidOriginStates("stop"), input)
    /\ apc' = IF Len(survivors') = 0 THEN "done"
              ELSE IF opt THEN "terminate-ephemeral" ELSE "stop"
    /\ UNCHANGED <<action, input, opt, calls, nextTask, worker, done, batches,
                   qvars, fvars, ivars>>

\* Stop.process: terminate_instances for the ephemeral group
StopTerminateEphemeral ==
    /\ action = "stop" /\ apc = "terminate-ephemeral"
    /\ calls' = Append(calls, Call("terminate_instances",
                                   Ids(SplitOnStorage(survivors).ephemeral)))
    /\ apc' = "stop"
    /\ UNCHANGED <<action, input, opt, survivors, nextTask, worker, done,
                   batches, qvars, fvars, ivars>>

\* Stop.process: stop_instances for the persistent group
StopStop ==
    /\ action = "stop" /\ apc = "stop"
    /\ calls' = Append(calls, Call("stop_instances",
                                   Ids(SplitOnStorage(survivors).persistent)))
    /\ apc' = "done"
    /\ UNCHANGED <<action, input, opt, survivors, nextTask, worker, done,
                   batches, qvars, fvars, ivars>>

\* Terminate.process: the state gate, the early return, and either the start
\* of disable_deletion_protection (every survivor queued on the pool) or the
\* start of the batch loop
TerminateGate ==
    /\ action = "terminate" /\ apc = "begin"
    /\ survivors' = FilterInstanceState(ValidOriginStates("terminate"), input)
    /\ IF Len(survivors') = 0
       THEN apc' = "done" /\ UNCHANGED <<nextTask, batches>>
       ELSE IF opt
       THEN apc' = "pool" /\ nextTask' = 1 /\ UNCHANGED batches
       ELSE /\ apc' = "batch" /\ batches' = Chunks(survivors', BatchSize)
            /\ UNCHANGED nextTask
    /\ UNCHANGED <<action, input, opt, calls, worker, done, qvars, fvars, ivars>>

\* disable_deletion_protection: an idle worker takes the next instance and
\* issues modify_instance_attribute for it
WorkerIssue(w) ==
    /\ action = "terminate" /\ apc = "pool"
    /\ worker[w] = 0
    /\ nextTask <= Len(survivors)
    /\ calls' = Append(calls, Call("modify_instance_attribute",
                                   <<survivors[nextTask].InstanceId>>))
    /\ worker' = [worker EXCEPT ![w] = nextTask]
    /\ nextTask' = nextTask + 1
    /\ UNCHANGED <<action, input, opt, apc, survivors, done, batches,
                   qvars, fvars, ivars>>

\* disable_deletion_protection: a worker's modify call completes
WorkerComplete(w) ==
    /\ worker[w] # 0
    /\ done' = done \cup {worker[w]}
    /\ worker' = [worker EXCEPT ![w] = 0]
    /\ UNCHANGED <<action, input, opt, apc, survivors, calls, nextTask,
                   batches, qvars, fvars, ivars>>

\* The pool is left as soon as every instance has been handed to a worker.
PoolJoinedEarly == nextTask > Len(survivors)
\* list(w.map(...)) inside 'with': every result is in and the pool is shut down
PoolJoined == nextTask > Len(survivors) /\ \A w \in DOMAIN worker : worker[w] = 0

\* Terminate.process: disable_deletion_protection returns
PoolJoin ==
    /\ action = "terminate" /\ apc = "pool"
    /\ PoolJoined
    /\ apc' = "batch"
    /\ batches' = Chunks(survivors, BatchSize)
    /\ UNCHANGED <<action, input, opt, survivors, calls, nextTask, worker,
                   done, qvars, fvars, ivars>>

\* Terminate.process: one pass of 'for batch in utils.chunks(instances, 100)';
\* the call is given the ids of instances, not of batch
TerminateBatch ==
    /\ action = "terminate" /\ apc = "batch"
    /\ batches # <<>>
    /\ calls' = Append(calls, Call("terminate_instances", Ids(survivors)))
    /\ batches' = Tail(batches)
    /\ apc' = IF Tail(batches) = <<>> THEN "done" ELSE "batch"
    /\ UNCHANGED <<action, input, opt, survivors, nextTask, worker, done,
                   qvars, fvars, ivars>>

NextActions ==
    \/ StartProcess
    \/ StopGate \/ StopTerminateEphemeral \/ StopStop
    \/ TerminateGate \/ PoolJoin \/ TerminateBatch
    \/ \E w \in DOMAIN worker : WorkerIssue(w) \/ WorkerComplete(w)
SpecActions == InitActions /\ [][NextActions]_vars

\* ------------------------------------------- claims on the lifecycle actions
IsTerminateCall(c) == c.api = "terminate_instances"
TerminateCalls == SelectSeq(calls, IsTerminateCall)
BulkApis == {"start_instances", "stop_instances", "terminate_instances"}

\* C2: no start_instances, stop_instances or terminate_instances call carries
\* an empty InstanceIds list.
C2_NoEmptyIds ==
    \A k \in DOMAIN calls : calls[k].api \in BulkApis => calls[k].ids # <<>>

\* C3: with force set, before the first terminate_instances call a
\* modify_instance_attribute call has been issued and has completed for every
\* surviving instance.
C3_ProtectionOffFirst ==
    (action = "terminate" /\ opt /\ TerminateCalls # <<>>) =>
        LET first == CHOOSE k \in DOMAIN calls :
                        /\ IsTerminateCall(calls[k])
                        /\ \A j \in 1..(k - 1) : ~IsTerminateCall(calls[j])
            modified == {calls[j].ids[1] : j \in 1..(first - 1)}
        IN  /\ done = DOMAIN survivors
            /\ \A j \in 1..(first - 1) :
                  calls[j].api = "modify_instance_attribute"
            /\ Range(Ids(survivors)) \subseteq modified

\* Three survivors had their protection disabled by the two workers and the
\* terminate call has been issued.
C3_Witness ==
    /\ action = "terminate" /\ opt /\ apc = "done"
    /\ Len(survivors) = 3 /\ Len(input) = 3
    /\ Len(calls) = 4 /\ IsTerminateCall(calls[4])

\* C4: every instance id given to a start, stop, terminate or modify call
\* belongs to an input instance whose state is one of the action's
\* valid_origin_states.
C4_OnlyValidOrigins ==
    LET valid == {input[m].InstanceId : m \in
                    {m \in DOMAIN input :
                        input[m].State \in ValidOriginStates(action)}}
    IN  \A k \in DOMAIN calls : Range(calls[k].ids) \subseteq valid

\* A forced terminate that left some input instances out and is finished.
C4_Witness ==
    /\ action = "terminate" /\ opt /\ apc = "done"
    /\ Len(survivors) >= 1 /\ Len(survivors) < Len(input)
    /\ Len(calls) = Len(survivors) + 1

HasPersistentRoot(i) ==
    \E k \in DOMAIN i.BlockDeviceMappings :
        /\ i.BlockDeviceMappings[k].DeviceName = "/dev/sda1"
        /\ i.BlockDeviceMappings[k].Ebs
Occurrences(l, i) == Cardinality({k \in DOMAIN l : l[k] = i})

\* C5: split_on_storage puts every survivor exactly once in exactly one group,
\* the persistent one if its root device mapping has an Ebs reference and the
\* ephemeral one otherwise; the ephemeral group goes to terminate_instances
\* only under terminate-ephemeral, the persistent group to stop_instances.
C5_SplitPartitions ==
    (action = "stop" /\ apc # "begin") =>
        LET g == SplitOnStorage(survivors)
        IN  /\ \A m \in DOMAIN survivors :
                  LET i == survivors[m]
                  IN  IF HasPersistentRoot(i)
                      THEN /\ Occurrences(g.persistent, i) = 1
                           /\ Occurrences(g.ephemeral, i) = 0
                      ELSE /\ Occurrences(g.ephemeral, i) = 1
                           /\ Occurrences(g.persistent, i) = 0
            /\ \A k \in DOMAIN calls :
                  /\ calls[k].api = "terminate_instances" =>
                        opt /\ calls[k].ids = Ids(g.ephemeral)
                  /\ calls[k].api = "stop_instances" =>
                        calls[k].ids = Ids(g.persistent)

\* C7: the k-th terminate_instances call of Terminate carries the ids of the
\* k-th batch of at most 100 survivors, so that once the loop is over every
\* survivor's id has been submitted exactly once.
C7_BatchedTerminate ==
    action = "terminate" =>
        LET chunks == Chunks(survivors, BatchSize)
        IN  /\ Len(TerminateCalls) <= Len(chunks)
            /\ \A k \in DOMAIN TerminateCalls :
                  /\ Len(TerminateCalls[k].ids) <= BatchSize
                  /\ TerminateCalls[k].ids = Ids(chunks[k])
            /\ apc = "done" => Len(TerminateCalls) = Len(chunks)

\* ------------------------------------------------------------ InstanceImage
\* Instance ids and image ids are values of one kind (strings in the code),
\* told apart by their prefix.
InstanceIdOf(n) == <<"i", n>>
AmiIds == {<<"ami", 1>>, <<"ami", 2>>}
ImageStates == {"available", "deregistered"}

\* The instances handed to the filter: the k-th has InstanceId i-k.
CandidateSets ==
    UNION {{[k \in 1..m |-> [InstanceId |-> InstanceIdOf(k), ImageId |-> f[k]]] :
                f \in [1..m -> AmiIds]} : m \in 0..MaxCandidates}

\* What describe_images may answer for the requested ids: at most one image
\* per requested id, an id the service no longer knows being left out.
ImageResponses(ids) ==
    UNION {{{[ImageId |-> a, State |-> f[a]] : a \in found} :
                f \in [found -> ImageStates]} : found \in SUBSET ids}

\* ValueFilter.match for the configured key and value.
Match(image) == image.State = wanted

\* ec2.describe_images(ImageIds=ids)['Images']
DescribeImages(ids) == {im \in images : im.ImageId \in ids}

\* InstanceImage.get_image_mapping
GetImageMapping(resources) ==
    LET image_ids == {resources[k].ImageId : k \in DOMAIN resources}
        results == DescribeImages(image_ids)
    IN  [a \in {im.ImageId : im \in results} |->
            CHOOSE im \in results : im.ImageId = a]

\* dict.get(key): the value, or nothing
DictGet(d, key) ==
    IF key \in DOMAIN d THEN [found |-> TRUE, at |-> key]
    ELSE [found |-> FALSE, at |-> key]

\* InstanceImage.__call__: the map, keyed by image id, is asked for the
\* instance's InstanceId
InstanceImageCall(i) ==
    LET image == DictGet(image_map, i.InstanceId)
    IN  IF ~image.found THEN FALSE ELSE Match(image_map[image.at])

InitImage ==
    /\ candidates \in CandidateSets
    /\ images \in ImageResponses({candidates[k].ImageId : k \in DOMAIN candidates})
    /\ wanted \in ImageStates
    /\ ipc = "new" /\ image_map = <<>> /\ processed = None
    /\ verdict = [k \in DOMAIN candidates |-> "unasked"]
    /\ QIdle /\ FIdle /\ AIdle

\* InstanceImage.process: the image map is built; nothing is returned
ImageProcess ==
    /\ ipc = "new"
    /\ image_map' = GetImageMapping(candidates)
    /\ processed' = None
    /\ ipc' = "mapped"
    /\ UNCHANGED <<candidates, images, wanted, verdict, qvars, fvars, avars>>

\* InstanceImage.__call__ on the k-th candidate
ImageCall(k) ==
    /\ ipc = "mapped"
    /\ verdict[k] = "unasked"
    /\ verdict' = [verdict EXCEPT ![k] =
                      IF InstanceImageCall(candidates[k]) THEN "match"
                      ELSE "nomatch"]
    /\ UNCHANGED <<ipc, candidates, images, wanted, image_map, processed,
                   qvars, fvars, avars>>

NextImage == ImageProcess \/ \E k \in DOMAIN candidates : ImageCall(k)
SpecImage == InitImage /\ [][NextImage]_vars

\* Whether the claim has the instance match: its image id is in the fetched
\* map and the predicate holds on that image.
ShouldMatch(i) ==
    /\ \E im \in images : im.ImageId = i.ImageId
    /\ \A im \in images : im.ImageId = i.ImageId => Match(im)

\* C6: an instance whose image id is not in the fetched map is excluded, and
\* any other instance matches exactly when the predicate holds on the image
\* with its image id.
C6_ImageVerdicts ==
    ipc = "mapped" =>
        \A k \in DOMAIN candidates :
            verdict[k] # "unasked" =>
                (verdict[k] = "match" <=> ShouldMatch(candidates[k]))

====
